---- MODULE Spec2Model ----
(***************************************************************************)
(* Model of models.py: the NearEarthObject and CloseApproach records, the  *)
(* conversions their constructors perform (float(), str(), the date        *)
(* helpers), their read operations, and the assembly step that links an    *)
(* approach to its NEO.                                                    *)
(*                                                                         *)
(* Python strings are sequences of one-character strings.  A Python float  *)
(* is a record: kind "nan", "inf" or "fin"; a finite value is a sign, an   *)
(* integer part and the sequence of its fractional decimal digits with     *)
(* trailing zeros removed, so that two floats are equal exactly when their *)
(* records are equal (nan excepted, see FloatEq).                          *)
(***************************************************************************)
EXTENDS Integers, Sequences, FiniteSets, TLC

(* ------------------------------------------------------------------ *)
(* Bounds                                                              *)
(* ------------------------------------------------------------------ *)
MaxLen == 5
MaxCas == 2

(* ------------------------------------------------------------------ *)
(* Python values of the raw field mappings                             *)
(* ------------------------------------------------------------------ *)
PyNone == [t |-> "none"]
PyStr(s) == [t |-> "str", v |-> s]
PyInt(n) == [t |-> "int", v |-> n]

IsNone(x) == x.t = "none"
IsStr(x) == x.t = "str"
IsInt(x) == x.t = "int"

(* x == '' of Python: a string with no characters. *)
IsEmptyStr(x) == IsStr(x) /\ x.v = <<>>

(* IsY comparing without regard to case. *)
IsY_AnyCase(x) == IsStr(x) /\ x.v \in {<<"Y">>, <<"y">>}

(* x == "Y" of Python. *)
IsY(x) == IsStr(x) /\ x.v = <<"Y">>

(* ------------------------------------------------------------------ *)
(* Digits and decimal numerals                                         *)
(* ------------------------------------------------------------------ *)
Digits == <<"0", "1", "2", "3", "4", "5", "6", "7", "8", "9">>
DigitSet == {Digits[i] : i \in 1..10}
DigitVal(c) == CASE c = "0" -> 0 [] c = "1" -> 1 [] c = "2" -> 2 [] c = "3" -> 3
                   [] c = "4" -> 4 [] c = "5" -> 5 [] c = "6" -> 6 [] c = "7" -> 7
                   [] c = "8" -> 8 [] c = "9" -> 9
AllDigits(s) == \A i \in 1..Len(s) : s[i] \in DigitSet

RECURSIVE Pow10(_)
Pow10(n) == IF n = 0 THEN 1 ELSE 10 * Pow10(n - 1)

RECURSIVE NatOf(_)
NatOf(s) == IF s = <<>> THEN 0
            ELSE 10 * NatOf(SubSeq(s, 1, Len(s) - 1)) + DigitVal(s[Len(s)])

RECURSIVE NatStr(_)
NatStr(n) == IF n < 10 THEN <<Digits[n + 1]>>
             ELSE NatStr(n \div 10) \o <<Digits[(n % 10) + 1]>>

RECURSIVE ZeroPad(_, _)
ZeroPad(s, w) == IF Len(s) >= w THEN s ELSE ZeroPad(<<"0">> \o s, w)

(* ------------------------------------------------------------------ *)
(* Python floats                                                       *)
(* ------------------------------------------------------------------ *)
FloatNaN == [k |-> "nan", neg |-> FALSE, ip |-> 0, fp |-> <<>>]
FloatInf(neg) == [k |-> "inf", neg |-> neg, ip |-> 0, fp |-> <<>>]

RECURSIVE StripZeros(_)
StripZeros(fp) == IF fp # <<>> /\ fp[Len(fp)] = 0
                  THEN StripZeros(SubSeq(fp, 1, Len(fp) - 1))
                  ELSE fp

FloatFin(neg, ip, fp) == [k |-> "fin", neg |-> neg, ip |-> ip, fp |-> StripZeros(fp)]

(* a == b of two floats: nan compares unequal to everything, itself included;
   -0.0 equals 0.0. *)
IsZero(a) == a.k = "fin" /\ a.ip = 0 /\ a.fp = <<>>
FloatEq(a, b) == /\ a.k # "nan"
                 /\ b.k # "nan"
                 /\ \/ a = b
                    \/ IsZero(a) /\ IsZero(b)

ValueError == [err |-> "ValueError"]
TypeError == [err |-> "TypeError"]
KeyError == [err |-> "KeyError"]
AttributeError == [err |-> "AttributeError"]
IsErr(r) == "err" \in DOMAIN r

RECURSIVE LStrip(_)
LStrip(s) == IF s # <<>> /\ s[1] = " " THEN LStrip(Tail(s)) ELSE s
RECURSIVE RStrip(_)
RStrip(s) == IF s # <<>> /\ s[Len(s)] = " " THEN RStrip(SubSeq(s, 1, Len(s) - 1)) ELSE s
Strip(s) == RStrip(LStrip(s))

(* The unsigned body of a decimal literal: digits with at most one point
   and at least one digit. *)
ParseBody(neg, b) ==
    LET dots == {i \in 1..Len(b) : b[i] = "."}
    IN  IF Cardinality(dots) > 1 THEN ValueError
        ELSE LET p == IF dots = {} THEN Len(b) + 1 ELSE CHOOSE i \in dots : TRUE
                 ipart == SubSeq(b, 1, p - 1)
                 fpart == SubSeq(b, p + 1, Len(b))
             IN  IF ~AllDigits(ipart) \/ ~AllDigits(fpart) \/ Len(ipart) + Len(fpart) = 0
                 THEN ValueError
                 ELSE FloatFin(neg, NatOf(ipart), [i \in 1..Len(fpart) |-> DigitVal(fpart[i])])

(* float(s) for a string s: surrounding blanks are dropped, an optional
   sign is read, then "nan", "inf" or a decimal literal. *)
ParseFloatStr(s) ==
    LET u == Strip(s)
        signed == u # <<>> /\ u[1] \in {"-", "+"}
        neg == u # <<>> /\ u[1] = "-"
        b == IF signed THEN Tail(u) ELSE u
    IN  IF b = <<"n", "a", "n">> THEN FloatNaN
        ELSE IF b = <<"i", "n", "f">> THEN FloatInf(neg)
        ELSE ParseBody(neg, b)

(* float(x) for a raw field value. *)
float(x) == IF IsStr(x) THEN ParseFloatStr(x.v)
            ELSE IF IsInt(x) THEN FloatFin(FALSE, x.v, <<>>)
            ELSE TypeError

(* The digits of fp from position nd + 1 on say whether the value lies
   above the midpoint between the two nd-digit neighbours.  On an exact
   decimal midpoint the result is the even neighbour. *)
RoundsUp(q, rest) ==
    IF rest = <<>> THEN FALSE
    ELSE IF rest[1] > 5 THEN TRUE
    ELSE IF rest[1] < 5 THEN FALSE
    ELSE IF Len(rest) > 1 THEN TRUE
    ELSE q % 2 = 1

(* f"{x:.<nd>f}" *)
FormatFixed(x, nd) ==
    IF x.k = "nan" THEN <<"n", "a", "n">>
    ELSE IF x.k = "inf" THEN (IF x.neg THEN <<"-">> ELSE <<>>) \o <<"i", "n", "f">>
    ELSE LET padded == [i \in 1..nd |-> IF i <= Len(x.fp) THEN x.fp[i] ELSE 0]
             head == NatOf([i \in 1..nd |-> Digits[padded[i] + 1]])
             rest == SubSeq(x.fp, nd + 1, Len(x.fp))
             q == IF RoundsUp(head, rest) THEN head + 1 ELSE head
             carry == q = Pow10(nd)
             ip2 == IF carry THEN x.ip + 1 ELSE x.ip
             q2 == IF carry THEN 0 ELSE q
         IN  (IF x.neg THEN <<"-">> ELSE <<>>)
             \o NatStr(ip2) \o <<".">> \o ZeroPad(NatStr(q2), nd)

(* ------------------------------------------------------------------ *)
(* String literals of the source                                       *)
(* ------------------------------------------------------------------ *)
S_unknown == <<"u", "n", "k", "n", "o", "w", "n">>
S_None == <<"N", "o", "n", "e">>
S_True == <<"T", "r", "u", "e">>
S_False == <<"F", "a", "l", "s", "e">>
S_neo_a == <<"A", " ", "N", "e", "a", "r", "E", "a", "r", "t", "h", "O", "b", "j", "e", "c", "t", " ">>
S_neo_b == <<" ", "h", "a", "s", " ", "a", " ", "d", "i", "a", "m", "e", "t", "e", "r", " ", "o", "f", " ">>
S_neo_c == <<" ", "k", "m", " ", "a", "n", "d", " ">>
S_haz == <<"i", "s", " ", "p", "o", "t", "e", "n", "t", "i", "a", "l", "l", "y", " ", "h", "a", "z", "a", "r", "d", "o", "u", "s">>
S_nothaz == <<"i", "s", " ", "n", "o", "t", " ", "p", "o", "t", "e", "n", "t", "i", "a", "l", "l", "y", " ", "h", "a", "z", "a", "r", "d", "o", "u", "s">>
S_nrepr_a == <<"N", "e", "a", "r", "E", "a", "r", "t", "h", "O", "b", "j", "e", "c", "t", "(", "d", "e", "s", "i", "g", "n", "a", "t", "i", "o", "n", "=">>
S_nrepr_b == <<",", " ", "n", "a", "m", "e", "=">>
S_nrepr_c == <<",", " ", "d", "i", "a", "m", "e", "t", "e", "r", "=">>
S_nrepr_d == <<",", " ", "h", "a", "z", "a", "r", "d", "o", "u", "s", "=">>
S_at == <<"A", "t", " ">>
S_q1 == <<",", " ", "'">>
S_appr == <<"'", " ", "a", "p", "p", "r", "o", "a", "c", "h", "e", "s", " ">>
S_earth_sp == <<" ", "E", "a", "r", "t", "h", " ", "a", "t", " ", "a", " ", "d", "i", "s", "t", "a", "n", "c", "e", " ", "o", "f", " ">>
S_earth == <<"E", "a", "r", "t", "h", " ", "a", "t", " ", "a", " ", "d", "i", "s", "t", "a", "n", "c", "e", " ", "o", "f", " ">>
S_au == <<" ", "a", "u", " ", "a", "n", "d", " ", "a", " ">>
S_vel == <<"v", "e", "l", "o", "c", "i", "t", "y", " ", "o", "f", " ">>
S_kms == <<" ", "k", "m", "/", "s", ".">>
S_crepr_a == <<"C", "l", "o", "s", "e", "A", "p", "p", "r", "o", "a", "c", "h", "(", "t", "i", "m", "e", "=">>
S_crepr_b == <<",", " ", "d", "i", "s", "t", "a", "n", "c", "e", "=">>
S_crepr_c == <<",", " ", "v", "e", "l", "o", "c", "i", "t", "y", "=">>
S_crepr_d == <<",", " ", "n", "e", "o", "=">>

(* str(x) and repr(x) of a raw field value. *)
str(x) == IF IsStr(x) THEN x.v
          ELSE IF IsInt(x) THEN NatStr(x.v)
          ELSE S_None
repr(x) == IF IsStr(x) THEN <<"'">> \o x.v \o <<"'">> ELSE str(x)
reprBool(b) == IF b THEN S_True ELSE S_False

(* ------------------------------------------------------------------ *)
(* The date helpers (helpers.cd_to_datetime, helpers.datetime_to_str)  *)
(* ------------------------------------------------------------------ *)
MonthNames == << <<"J", "a", "n">>, <<"F", "e", "b">>, <<"M", "a", "r">>,
                 <<"A", "p", "r">>, <<"M", "a", "y">>, <<"J", "u", "n">>,
                 <<"J", "u", "l">>, <<"A", "u", "g">>, <<"S", "e", "p">>,
                 <<"O", "c", "t">>, <<"N", "o", "v">>, <<"D", "e", "c">> >>

(* A calendar date and time in the form YYYY-Mon-DD HH:MM. *)
cd_to_datetime(x) ==
    IF ~IsStr(x) THEN TypeError
    ELSE LET s == x.v
             wellFormed ==
                 /\ Len(s) = 17
                 /\ AllDigits(SubSeq(s, 1, 4)) /\ s[5] = "-"
                 /\ \E m \in 1..12 : MonthNames[m] = SubSeq(s, 6, 8)
                 /\ s[9] = "-" /\ AllDigits(SubSeq(s, 10, 11)) /\ s[12] = " "
                 /\ AllDigits(SubSeq(s, 13, 14)) /\ s[15] = ":"
                 /\ AllDigits(SubSeq(s, 16, 17))
                 /\ NatOf(SubSeq(s, 10, 11)) \in 1..31
                 /\ NatOf(SubSeq(s, 13, 14)) \in 0..23
                 /\ NatOf(SubSeq(s, 16, 17)) \in 0..59
         IN  IF ~wellFormed THEN ValueError
             ELSE [t |-> "datetime",
                   year |-> NatOf(SubSeq(s, 1, 4)),
                   month |-> CHOOSE m \in 1..12 : MonthNames[m] = SubSeq(s, 6, 8),
                   day |-> NatOf(SubSeq(s, 10, 11)),
                   hour |-> NatOf(SubSeq(s, 13, 14)),
                   minute |-> NatOf(SubSeq(s, 16, 17))]

(* The canonical form YYYY-MM-DD HH:MM, without seconds; an absent time
   gives the formatter's placeholder. *)
NoTimePlaceholder == <<>>
datetime_to_str(t) ==
    IF IsNone(t) THEN NoTimePlaceholder
    ELSE ZeroPad(NatStr(t.year), 4) \o <<"-">> \o ZeroPad(NatStr(t.month), 2)
         \o <<"-">> \o ZeroPad(NatStr(t.day), 2) \o <<" ">>
         \o ZeroPad(NatStr(t.hour), 2) \o <<":">> \o ZeroPad(NatStr(t.minute), 2)

(* ------------------------------------------------------------------ *)
(* NearEarthObject                                                     *)
(* ------------------------------------------------------------------ *)
Has(info, key) == key \in DOMAIN info

(* The diameter the constructor stores, or the error float() raises. *)
NeoDiameter(raw) ==
    IF IsEmptyStr(raw) THEN FloatNaN
    ELSE LET f == float(raw)
         IN  IF IsErr(f) THEN f
             ELSE IF ~FloatEq(f, FloatNaN) THEN f
             ELSE FloatNaN

(* The object __init__ leaves behind, or the error it raises. *)
NearEarthObject__init__(info) ==
    IF ~Has(info, "designation") THEN KeyError
    ELSE IF ~Has(info, "name") THEN KeyError
    ELSE IF ~Has(info, "diameter") THEN KeyError
    ELSE LET diameter == NeoDiameter(info.diameter)
         IN  IF IsErr(diameter) THEN diameter
             ELSE IF ~Has(info, "hazardous") THEN KeyError
             ELSE [designation |-> info.designation,
                   name |-> IF ~IsEmptyStr(info.name) /\ ~IsNone(info.name)
                            THEN info.name ELSE PyNone,
                   diameter |-> diameter,
                   hazardous |-> IsY(info.hazardous),
                   approaches |-> <<>>]

(* fullname joining designation and name without the separator. *)
fullname_NoSpace(self) ==
    IF IsNone(self.name) THEN str(self.designation)
    ELSE str(self.designation) \o str(self.name)

fullname(self) ==
    IF IsNone(self.name) THEN str(self.designation)
    ELSE str(self.designation) \o <<" ">> \o str(self.name)

finaldiameter(self) ==
    IF FloatEq(self.diameter, FloatNaN) THEN S_unknown
    ELSE FormatFixed(self.diameter, 3)

NearEarthObject__str__(self) ==
    S_neo_a \o fullname(self) \o S_neo_b \o finaldiameter(self) \o S_neo_c
    \o (IF self.hazardous THEN S_haz ELSE S_nothaz) \o <<".">>

NearEarthObject__repr__(self) ==
    S_nrepr_a \o repr(self.designation) \o S_nrepr_b \o repr(self.name)
    \o S_nrepr_c \o FormatFixed(self.diameter, 3)
    \o S_nrepr_d \o reprBool(self.hazardous) \o <<")">>

(* ------------------------------------------------------------------ *)
(* CloseApproach                                                       *)
(* ------------------------------------------------------------------ *)
PyRef(i) == [t |-> "ref", v |-> i]

CaTime(raw) == IF ~IsNone(raw) THEN cd_to_datetime(raw) ELSE PyNone

(* __init__ that takes the designation for the reference itself. *)
CloseApproach__init__Linked(info) ==
    IF ~Has(info, "designation") THEN KeyError
    ELSE IF ~Has(info, "time") THEN KeyError
    ELSE LET time == CaTime(info.time)
         IN  IF IsErr(time) THEN time
             ELSE IF ~Has(info, "distance") THEN KeyError
             ELSE LET distance == float(info.distance)
                  IN  IF IsErr(distance) THEN distance
                      ELSE IF ~Has(info, "velocity") THEN KeyError
                      ELSE LET velocity == float(info.velocity)
                           IN  IF IsErr(velocity) THEN velocity
                               ELSE [_designation |-> str(info.designation),
                                     time |-> time,
                                     distance |-> distance,
                                     velocity |-> velocity,
                                     neo |-> PyStr(str(info.designation))]

(* __init__ that swallows a failed conversion of distance or velocity
   and stores nan in its place. *)
Lenient(f) == IF IsErr(f) THEN FloatNaN ELSE f
CloseApproach__init__Lenient(info) ==
    IF ~Has(info, "designation") THEN KeyError
    ELSE IF ~Has(info, "time") THEN KeyError
    ELSE LET time == CaTime(info.time)
         IN  IF IsErr(time) THEN time
             ELSE IF ~Has(info, "distance") THEN KeyError
             ELSE IF ~Has(info, "velocity") THEN KeyError
             ELSE [_designation |-> str(info.designation),
                   time |-> time,
                   distance |-> Lenient(float(info.distance)),
                   velocity |-> Lenient(float(info.velocity)),
                   neo |-> PyNone]

CloseApproach__init__(info) ==
    IF ~Has(info, "designation") THEN KeyError
    ELSE IF ~Has(info, "time") THEN KeyError
    ELSE LET time == CaTime(info.time)
         IN  IF IsErr(time) THEN time
             ELSE IF ~Has(info, "distance") THEN KeyError
             ELSE LET distance == float(info.distance)
                  IN  IF IsErr(distance) THEN distance
                      ELSE IF ~Has(info, "velocity") THEN KeyError
                      ELSE LET velocity == float(info.velocity)
                           IN  IF IsErr(velocity) THEN velocity
                               ELSE [_designation |-> str(info.designation),
                                     time |-> time,
                                     distance |-> distance,
                                     velocity |-> velocity,
                                     neo |-> PyNone]

time_str(self) == datetime_to_str(self.time)

(* serialize giving the distance and the velocity as they are printed,
   to two decimals. *)
serialize_Rounded(self, neos) ==
    IF IsNone(self.neo) THEN AttributeError
    ELSE [datetime_utc |-> datetime_to_str(self.time),
          distance_au |-> ParseFloatStr(FormatFixed(self.distance, 2)),
          velocity_km_s |-> ParseFloatStr(FormatFixed(self.velocity, 2)),
          neo |-> [designation |-> neos[self.neo.v].designation,
                   name |-> neos[self.neo.v].name,
                   diameter_km |-> neos[self.neo.v].diameter,
                   potentially_hazardous |-> neos[self.neo.v].hazardous]]

(* serialize giving a null neo entry for an approach not linked. *)
serialize_NullNeo(self, neos) ==
    [datetime_utc |-> datetime_to_str(self.time),
     distance_au |-> self.distance,
     velocity_km_s |-> self.velocity,
     neo |-> IF IsNone(self.neo) THEN PyNone
             ELSE [designation |-> neos[self.neo.v].designation,
                   name |-> neos[self.neo.v].name,
                   diameter_km |-> neos[self.neo.v].diameter,
                   potentially_hazardous |-> neos[self.neo.v].hazardous]]

(* neos is the heap of NearEarthObjects self.neo points into. *)
serialize(self, neos) ==
    IF IsNone(self.neo) THEN AttributeError
    ELSE [datetime_utc |-> datetime_to_str(self.time),
          distance_au |-> self.distance,
          velocity_km_s |-> self.velocity,
          neo |-> [designation |-> neos[self.neo.v].designation,
                   name |-> neos[self.neo.v].name,
                   diameter_km |-> neos[self.neo.v].diameter,
                   potentially_hazardous |-> neos[self.neo.v].hazardous]]

CloseApproach__str__(self, neos) ==
    IF ~IsNone(self.neo)
    THEN S_at \o time_str(self) \o S_q1 \o fullname(neos[self.neo.v]) \o S_appr
         \o S_earth_sp \o FormatFixed(self.distance, 2) \o S_au
         \o S_vel \o FormatFixed(self.velocity, 2) \o S_kms
    ELSE S_at \o time_str(self) \o S_q1 \o self._designation \o S_appr
         \o S_earth \o FormatFixed(self.distance, 2) \o S_au
         \o S_vel \o FormatFixed(self.velocity, 2) \o S_kms

CloseApproach__repr__(self, neos) ==
    S_crepr_a \o repr(PyStr(time_str(self)))
    \o S_crepr_b \o FormatFixed(self.distance, 2)
    \o S_crepr_c \o FormatFixed(self.velocity, 2)
    \o S_crepr_d \o (IF IsNone(self.neo) THEN S_None
                     ELSE NearEarthObject__repr__(neos[self.neo.v])) \o <<")">>

(* ------------------------------------------------------------------ *)
(* State                                                               *)
(* ------------------------------------------------------------------ *)
VARIABLES
    neos,      \* the NearEarthObjects constructed so far, by identity
    cas,       \* the CloseApproaches constructed so far, by identity
    rawNeos,   \* history: the field mapping each NearEarthObject was built from
    rawCas,    \* history: the field mapping each CloseApproach was built from
    linkLog,   \* history: the pairs <<approach, neo>> in the order they were linked
    op,        \* the operation called last
    arg,       \* its argument
    ret        \* what it returned, or the error it raised

vars == <<neos, cas, rawNeos, rawCas, linkLog, op, arg, ret>>

Returned(x) == [val |-> x]

(* ------------------------------------------------------------------ *)
(* Inputs                                                              *)
(* ------------------------------------------------------------------ *)
d433 == <<"4", "3", "3">>
d2015 == <<"2", "0", "1", "5", " ", "A", "B">>
Eros == <<"E", "r", "o", "s">>
t1900 == <<"1", "9", "0", "0", "-", "J", "a", "n", "-", "0", "1", " ", "0", "0", ":", "0", "0">>
t2020 == <<"2", "0", "2", "0", "-", "D", "e", "c", "-", "3", "1", " ", "2", "3", ":", "5", "9">>
tbad == <<"1", "9", "0", "0", "-", "F", "o", "o", "-", "0", "1", " ", "0", "0", ":", "0", "0">>
n1684 == <<"1", "6", ".", "8", "4">>
n0092 == <<"0", ".", "0", "9", "2">>
n1327 == <<"1", "3", ".", "2", "7">>
n1996 == <<"1", ".", "9", "9", "6">>
n7004 == <<" ", "7", ".", "0", "0", "4">>
abc == <<"a", "b", "c">>

Drop(info, key) == [k \in DOMAIN info \ {key} |-> info[k]]

ErosRow == [designation |-> PyStr(d433), name |-> PyStr(Eros),
            diameter |-> PyStr(n1684), hazardous |-> PyStr(<<"N">>)]
NoNameRow == [designation |-> PyStr(d2015), name |-> PyStr(<<>>),
              diameter |-> PyStr(<<>>), hazardous |-> PyStr(<<"Y">>)]
ErosApproach == [designation |-> PyStr(d433), time |-> PyStr(t1900),
                 distance |-> PyStr(n0092), velocity |-> PyStr(n1327)]
IntApproach == [designation |-> PyInt(433), time |-> PyNone,
                distance |-> PyStr(n1996), velocity |-> PyStr(n7004)]
OtherApproach == [designation |-> PyStr(d2015), time |-> PyStr(t2020),
                  distance |-> PyStr(n1327), velocity |-> PyStr(n0092)]

(* The records the population is built from. *)
NeoRows == {ErosRow, NoNameRow, Drop(ErosRow, "designation")}
CaRows == {ErosApproach, IntApproach, OtherApproach,
           [ErosApproach EXCEPT !.velocity = PyStr(abc)]}

(* The field mappings a single construction is tried on. *)
Alphabet == {"0", "6", "9", ".", "-", "x"}
Strings(n) == UNION {[1..k -> Alphabet] : k \in 0..n}
NeoKeys == {"designation", "name", "diameter", "hazardous"}
CaKeys == {"designation", "time", "distance", "velocity"}
NoKey == "-"

NeoFieldSets == [designation : {PyStr(d433), PyStr(d2015)},
                 name : {PyNone, PyStr(<<>>), PyStr(Eros), PyInt(7)},
                 diameter : {PyStr(<<>>), PyStr(n1684), PyStr(abc), PyNone,
                             PyStr(<<"n", "a", "n">>), PyStr(<<"i", "n", "f">>)},
                 hazardous : {PyNone, PyStr(<<>>), PyStr(<<"N">>), PyStr(<<"Y">>),
                              PyStr(<<"y">>)}]

CaFieldSets == [designation : {PyStr(d433), PyInt(433)},
                time : {PyNone, PyStr(t1900), PyStr(tbad)},
                distance : {PyStr(n0092), PyStr(abc), PyNone,
                            PyStr(<<"-", "i", "n", "f">>)},
                velocity : {PyStr(n1327), PyStr(<<>>), PyStr(<<"n", "a", "n">>)}]

(* ------------------------------------------------------------------ *)
(* Operations                                                          *)
(* ------------------------------------------------------------------ *)
Init ==
    /\ neos = <<>>
    /\ cas = <<>>
    /\ rawNeos = <<>>
    /\ rawCas = <<>>
    /\ linkLog = <<>>
    /\ op = "none"
    /\ arg = PyNone
    /\ ret = Returned(PyNone)

(* The constructor call of a NearEarthObject on the mapping info. *)
ConstructNeo(info) ==
    /\ op' = "NearEarthObject"
    /\ arg' = info
    /\ LET self == NearEarthObject__init__(info)
       IN  IF IsErr(self)
           THEN /\ ret' = self
                /\ UNCHANGED <<neos, rawNeos>>
           ELSE /\ ret' = Returned(PyRef(Len(neos) + 1))
                /\ neos' = Append(neos, self)
                /\ rawNeos' = Append(rawNeos, info)
    /\ UNCHANGED <<cas, rawCas, linkLog>>

(* The constructor call of a CloseApproach on the mapping info. *)
ConstructCa(info) ==
    /\ Len(cas) < MaxCas
    /\ op' = "CloseApproach"
    /\ arg' = info
    /\ LET self == CloseApproach__init__(info)
       IN  IF IsErr(self)
           THEN /\ ret' = self
                /\ UNCHANGED <<cas, rawCas>>
           ELSE /\ ret' = Returned(PyRef(Len(cas) + 1))
                /\ cas' = Append(cas, self)
                /\ rawCas' = Append(rawCas, info)
    /\ UNCHANGED <<neos, rawNeos, linkLog>>

(* The assembly step: an approach not linked yet is given the NEO that
   carries its designation, and is appended to that NEO's approaches. *)
Link(c, n) ==
    /\ IsNone(cas[c].neo)
    /\ neos[n].designation = PyStr(cas[c]._designation)
    /\ cas' = [cas EXCEPT ![c].neo = PyRef(n)]
    /\ neos' = [neos EXCEPT ![n].approaches = Append(@, c)]
    /\ linkLog' = Append(linkLog, <<c, n>>)
    /\ op' = "link"
    /\ arg' = <<c, n>>
    /\ ret' = Returned(PyNone)
    /\ UNCHANGED <<rawNeos, rawCas>>

(* A read of NearEarthObject n or of CloseApproach c: the call's result
   is recorded, the objects are what the method leaves them. *)
Call(name, ref, outcome) ==
    /\ op' = name
    /\ arg' = ref
    /\ ret' = outcome

ReadFullname(n) ==
    /\ Call("fullname", PyRef(n), Returned(fullname(neos[n])))
    /\ UNCHANGED <<neos, cas, rawNeos, rawCas, linkLog>>

ReadFinaldiameter(n) ==
    /\ Call("finaldiameter", PyRef(n), Returned(finaldiameter(neos[n])))
    /\ UNCHANGED <<neos, cas, rawNeos, rawCas, linkLog>>

(* __str__ that lists the approaches latest first and leaves them so. *)
RECURSIVE Reverse(_)
Reverse(q) == IF q = <<>> THEN <<>> ELSE Append(Reverse(Tail(q)), Head(q))
NeoStr_Reordering(n) ==
    /\ Call("NearEarthObject.__str__", PyRef(n), Returned(NearEarthObject__str__(neos[n])))
    /\ neos' = [neos EXCEPT ![n].approaches = Reverse(@)]
    /\ UNCHANGED <<cas, rawNeos, rawCas, linkLog>>

NeoStr(n) ==
    /\ Call("NearEarthObject.__str__", PyRef(n), Returned(NearEarthObject__str__(neos[n])))
    /\ UNCHANGED <<neos, cas, rawNeos, rawCas, linkLog>>

NeoRepr(n) ==
    /\ Call("NearEarthObject.__repr__", PyRef(n), Returned(NearEarthObject__repr__(neos[n])))
    /\ UNCHANGED <<neos, cas, rawNeos, rawCas, linkLog>>

ReadTimeStr(c) ==
    /\ Call("time_str", PyRef(c), Returned(time_str(cas[c])))
    /\ UNCHANGED <<neos, cas, rawNeos, rawCas, linkLog>>

Serialize(c) ==
    /\ LET serialized == serialize(cas[c], neos)
       IN  Call("serialize", PyRef(c),
                IF IsErr(serialized) THEN serialized ELSE Returned(serialized))
    /\ UNCHANGED <<neos, cas, rawNeos, rawCas, linkLog>>

(* __str__ that rounds the distance and the velocity in place before
   printing them. *)
CaStr_Rounding(c) ==
    /\ Call("CloseApproach.__str__", PyRef(c), Returned(CloseApproach__str__(cas[c], neos)))
    /\ cas' = [cas EXCEPT ![c].distance = ParseFloatStr(FormatFixed(@, 2)),
                          ![c].velocity = ParseFloatStr(FormatFixed(@, 2))]
    /\ UNCHANGED <<neos, rawNeos, rawCas, linkLog>>

CaStr(c) ==
    /\ Call("CloseApproach.__str__", PyRef(c), Returned(CloseApproach__str__(cas[c], neos)))
    /\ UNCHANGED <<neos, cas, rawNeos, rawCas, linkLog>>

CaRepr(c) ==
    /\ Call("CloseApproach.__repr__", PyRef(c), Returned(CloseApproach__repr__(cas[c], neos)))
    /\ UNCHANGED <<neos, cas, rawNeos, rawCas, linkLog>>

NeoIds == 1..Len(neos)
CaIds == 1..Len(cas)

(* Each NEO of the data set has a unique primary designation: a record is
   loaded once. *)
NotYetLoaded(info) ==
    Has(info, "designation") =>
        \A n \in NeoIds : neos[n].designation # info.designation

(* ------------------------------------------------------------------ *)
(* The population: records are constructed, linked and read            *)
(* ------------------------------------------------------------------ *)
NewNeo == \E info \in NeoRows : NotYetLoaded(info) /\ ConstructNeo(info)
NewCa == \E info \in CaRows : ConstructCa(info)
LinkStep == \E c \in CaIds, n \in NeoIds : Link(c, n)
GetFullname == \E n \in NeoIds : ReadFullname(n)
GetFinaldiameter == \E n \in NeoIds : ReadFinaldiameter(n)
PrintNeo == \E n \in NeoIds : NeoStr(n)
DebugNeo == \E n \in NeoIds : NeoRepr(n)
GetTimeStr == \E c \in CaIds : ReadTimeStr(c)
SerializeCa == \E c \in CaIds : Serialize(c)
PrintCa == \E c \in CaIds : CaStr(c)
DebugCa == \E c \in CaIds : CaRepr(c)

Reads == \/ GetFullname \/ GetFinaldiameter \/ PrintNeo \/ DebugNeo
         \/ GetTimeStr \/ SerializeCa \/ PrintCa \/ DebugCa

Next == NewNeo \/ NewCa \/ LinkStep \/ Reads

Spec == Init /\ [][Next]_vars

(* ------------------------------------------------------------------ *)
(* One construction from any field mapping, then reads of the object   *)
(* it gave                                                             *)
(* ------------------------------------------------------------------ *)
Fresh == op = "none"

(* Every short text as the diameter, the distance or the velocity. *)
TryNeoDiameter ==
    Fresh /\ \E s \in Strings(MaxLen) :
                 ConstructNeo([ErosRow EXCEPT !.diameter = PyStr(s)])
TryCaDistance ==
    Fresh /\ \E s \in Strings(MaxLen) :
                 ConstructCa([ErosApproach EXCEPT !.distance = PyStr(s)])
TryCaVelocity ==
    Fresh /\ \E s \in Strings(MaxLen) :
                 ConstructCa([ErosApproach EXCEPT !.velocity = PyStr(s)])

(* Every combination of the field values, with at most one key left out. *)
TryNeoFields ==
    Fresh /\ \E i \in NeoFieldSets, k \in NeoKeys \cup {NoKey} : ConstructNeo(Drop(i, k))
TryCaFields ==
    Fresh /\ \E i \in CaFieldSets, k \in CaKeys \cup {NoKey} : ConstructCa(Drop(i, k))

NextCtor == \/ TryNeoDiameter \/ TryNeoFields
            \/ TryCaDistance \/ TryCaVelocity \/ TryCaFields
            \/ Reads

SpecCtor == Init /\ [][NextCtor]_vars

(* ------------------------------------------------------------------ *)
(* Vocabulary of the properties                                        *)
(* ------------------------------------------------------------------ *)
ReadOps == {"fullname", "finaldiameter", "NearEarthObject.__str__",
            "NearEarthObject.__repr__", "time_str", "serialize",
            "CloseApproach.__str__", "CloseApproach.__repr__"}

Built == ~IsErr(ret)

(* The text s, read as a signed decimal literal: digits, at most one
   point, at least one digit. *)
Unsigned(s) == IF s # <<>> /\ s[1] \in {"-", "+"} THEN Tail(s) ELSE s
IsDecimalText(s) ==
    LET b == Unsigned(Strip(s))
    IN  /\ \A i \in 1..Len(b) : b[i] \in DigitSet \cup {"."}
        /\ Cardinality({i \in 1..Len(b) : b[i] = "."}) <= 1
        /\ \E i \in 1..Len(b) : b[i] \in DigitSet
IsDecimal(x) == IsStr(x) /\ IsDecimalText(x.v)
IsNumeric(x) == \/ IsDecimal(x)
                \/ IsStr(x) /\ Unsigned(x.v) \in {<<"n", "a", "n">>, <<"i", "n", "f">>}

(* out is a decimal numeral with exactly three digits after its point. *)
HasThreeDecimals(out) ==
    /\ Len(out) >= 5
    /\ out[Len(out) - 3] = "."
    /\ AllDigits(SubSeq(out, Len(out) - 2, Len(out)))
    /\ Unsigned(SubSeq(out, 1, Len(out) - 4)) # <<>>
    /\ AllDigits(Unsigned(SubSeq(out, 1, Len(out) - 4)))

RECURSIVE DigitsValue(_)
DigitsValue(ds) == IF ds = <<>> THEN 0
                   ELSE 10 * DigitsValue(SubSeq(ds, 1, Len(ds) - 1)) + ds[Len(ds)]

(* The magnitude of a finite float in units of 10^-k, k at least the
   number of its fractional digits. *)
Scaled(f, k) == f.ip * Pow10(k)
                + DigitsValue([i \in 1..k |-> IF i <= Len(f.fp) THEN f.fp[i] ELSE 0])
Abs(i) == IF i < 0 THEN -i ELSE i
Max(a, b) == IF a > b THEN a ELSE b

(* out is the three-decimal numeral nearest to the value of the text raw. *)
IsThreeDecimalFormOf(out, raw) ==
    /\ HasThreeDecimals(out)
    /\ (out[1] = "-") = (Unsigned(Strip(raw)) # Strip(raw) /\ Strip(raw)[1] = "-")
    /\ LET v == ParseFloatStr(raw)
           o == ParseFloatStr(out)
           k == Max(Len(v.fp), 3)
       IN  2 * Abs(Scaled(o, k) - Scaled(v, k)) <= Pow10(k - 3)

RECURSIVE ApproachesOf(_, _)
ApproachesOf(log, n) ==
    IF log = <<>> THEN <<>>
    ELSE LET before == ApproachesOf(SubSeq(log, 1, Len(log) - 1), n)
         IN  IF log[Len(log)][2] = n THEN Append(before, log[Len(log)][1])
             ELSE before

(* ------------------------------------------------------------------ *)
(* C1                                                                  *)
(* ------------------------------------------------------------------ *)

(* C1: finaldiameter of a NearEarthObject built with diameter '' returns
   "unknown"; built with a decimal numeral it returns that number with
   exactly three decimal places. *)
C1_FinalDiameter ==
    (op = "finaldiameter") =>
        LET raw == rawNeos[arg.v].diameter
        IN  /\ IsEmptyStr(raw) => ret = Returned(S_unknown)
            /\ IsDecimal(raw) => IsThreeDecimalFormOf(ret.val, raw.v)

(* The second half of C1 alone. *)
C1_ThreeDecimals ==
    (op = "finaldiameter" /\ IsDecimal(rawNeos[arg.v].diameter)) =>
        IsThreeDecimalFormOf(ret.val, rawNeos[arg.v].diameter.v)

(* ------------------------------------------------------------------ *)
(* C2                                                                  *)
(* ------------------------------------------------------------------ *)
NeoFields == {"designation", "name", "diameter", "hazardous", "approaches"}
CaFields == {"_designation", "time", "distance", "velocity", "neo"}

(* The mapping gives a designation, a name and a diameter the
   constructor accepts; nothing is said of its hazardous field. *)
OtherFieldsGiven(info) ==
    /\ {"designation", "name", "diameter"} \subseteq DOMAIN info
    /\ IsEmptyStr(info.diameter) \/ IsNumeric(info.diameter)

(* C2 as stated: construction always succeeds, and hazardous is true
   exactly when the raw field is "Y"; an absent field gives false. *)
C2_AlwaysSucceeds ==
    (op = "NearEarthObject" /\ OtherFieldsGiven(arg)) =>
        /\ Built
        /\ neos[ret.val.v].hazardous \in BOOLEAN
        /\ neos[ret.val.v].hazardous
               = (Has(arg, "hazardous") /\ arg.hazardous = PyStr(<<"Y">>))

(* C2, amended: when the mapping has a hazardous key, whatever its value
   (None included), construction sets hazardous to a boolean that is true
   exactly when the value is the string "Y"; when the key is missing the
   constructor raises KeyError and no object is made. *)
C2_Hazardous ==
    (op = "NearEarthObject" /\ OtherFieldsGiven(arg)) =>
        IF Has(arg, "hazardous")
        THEN /\ Built
             /\ neos[ret.val.v].hazardous \in BOOLEAN
             /\ neos[ret.val.v].hazardous = (arg.hazardous = PyStr(<<"Y">>))
        ELSE ret = KeyError /\ neos = <<>>

C2_Witness ==
    /\ op = "NearEarthObject"
    /\ Has(arg, "hazardous") /\ arg.hazardous = PyStr(<<"Y">>)
    /\ Built /\ neos[ret.val.v].hazardous

(* ------------------------------------------------------------------ *)
(* C3                                                                  *)
(* ------------------------------------------------------------------ *)

(* C3: a non-empty string name is stored as it is and fullname is the
   designation, a space and the name; an empty or None name is stored as
   None and fullname is the designation alone. *)
C3_Fullname ==
    (op = "fullname") =>
        LET raw == rawNeos[arg.v]
            self == neos[arg.v]
        IN  /\ (IsStr(raw.name) /\ raw.name.v # <<>>) =>
                   /\ self.name = raw.name
                   /\ ret.val = raw.designation.v \o <<" ">> \o raw.name.v
            /\ (IsNone(raw.name) \/ IsEmptyStr(raw.name)) =>
                   /\ self.name = PyNone
                   /\ ret.val = raw.designation.v

C3_Witness ==
    /\ op = "fullname"
    /\ rawNeos[arg.v].name = PyStr(Eros)
    /\ ret = Returned(<<"4", "3", "3", " ", "E", "r", "o", "s">>)

(* ------------------------------------------------------------------ *)
(* C4                                                                  *)
(* ------------------------------------------------------------------ *)
Linked(c) == ~IsNone(cas[c].neo)

(* C4: serialize of a linked approach returns exactly the four keys, the
   distance and velocity given at construction unrounded, the time as
   time_str gives it, and the four fields of the linked NEO. *)
C4_Serialize ==
    (op = "serialize" /\ Linked(arg.v)) =>
        /\ Built
        /\ DOMAIN ret.val = {"datetime_utc", "distance_au", "velocity_km_s", "neo"}
        /\ ret.val.distance_au = float(rawCas[arg.v].distance)
        /\ ret.val.velocity_km_s = float(rawCas[arg.v].velocity)
        /\ ret.val.datetime_utc = time_str(cas[arg.v])
        /\ DOMAIN ret.val.neo
               = {"designation", "name", "diameter_km", "potentially_hazardous"}
        /\ LET neo == neos[cas[arg.v].neo.v]
           IN  /\ ret.val.neo.designation = neo.designation
               /\ ret.val.neo.name = neo.name
               /\ ret.val.neo.diameter_km = neo.diameter
               /\ ret.val.neo.potentially_hazardous = neo.hazardous

C4_Witness ==
    /\ op = "serialize" /\ Built
    /\ rawCas[arg.v].distance = PyStr(n0092)
    /\ ret.val.distance_au = [k |-> "fin", neg |-> FALSE, ip |-> 0, fp |-> <<0, 9, 2>>]
    /\ ret.val.neo.name = PyStr(Eros)

(* ------------------------------------------------------------------ *)
(* C5                                                                  *)
(* ------------------------------------------------------------------ *)

(* C5: serialize of an approach that is not linked raises an error,
   returns no mapping, and leaves every object as it was. *)
C5_UnlinkedSerializeFails ==
    [][(op' = "serialize" /\ IsNone(cas[arg'.v].neo)) =>
           /\ IsErr(ret')
           /\ cas' = cas
           /\ neos' = neos]_vars

C5_Witness ==
    /\ op = "serialize"
    /\ ~Linked(arg.v)
    /\ ret = AttributeError

(* ------------------------------------------------------------------ *)
(* C6                                                                  *)
(* ------------------------------------------------------------------ *)

(* C6: a NearEarthObject just constructed has no approaches, and at any
   time its approaches are the approaches linked to it, in the order
   they were linked. *)
C6_ApproachOrder ==
    /\ (op = "NearEarthObject" /\ Built) => neos[ret.val.v].approaches = <<>>
    /\ \A n \in NeoIds : neos[n].approaches = ApproachesOf(linkLog, n)

C6_Witness ==
    /\ op = "NearEarthObject.__str__"
    /\ neos[arg.v].approaches = <<2, 1>>

(* ------------------------------------------------------------------ *)
(* C7                                                                  *)
(* ------------------------------------------------------------------ *)

(* C7: a CloseApproach just constructed has no neo; a linked one points
   to the NEO whose designation is the string form of the designation it
   was constructed with; a neo once set is never changed. *)
C7_Fresh == (op = "CloseApproach" /\ Built) => IsNone(cas[ret.val.v].neo)
C7_Designation ==
    \A c \in CaIds :
        Linked(c) =>
            neos[cas[c].neo.v].designation
                = PyStr(IF rawCas[c].designation = PyInt(433) THEN d433
                        ELSE rawCas[c].designation.v)
C7_NeoSlot ==
    /\ [](C7_Fresh /\ C7_Designation)
    /\ [][\A c \in CaIds : Linked(c) => cas'[c].neo = cas[c].neo]_vars

C7_Witness ==
    \E c \in CaIds :
        /\ rawCas[c].designation = PyInt(433)
        /\ Linked(c)
        /\ neos[cas[c].neo.v].designation = PyStr(d433)
        /\ op \in ReadOps

(* ------------------------------------------------------------------ *)
(* C8                                                                  *)
(* ------------------------------------------------------------------ *)
Unparseable(info, key) == Has(info, key) /\ ~IsNumeric(info[key])

(* C8: a NearEarthObject without designation, and a CloseApproach without
   distance or velocity or with one of them not a number, fail to
   construct; a failed construction leaves no object, a successful one an
   object with all its fields. *)
C8_AllOrNothing ==
    /\ (op = "NearEarthObject" /\ ~Has(arg, "designation")) => IsErr(ret)
    /\ (op = "CloseApproach"
        /\ \/ ~Has(arg, "distance") \/ ~Has(arg, "velocity")
           \/ Unparseable(arg, "distance") \/ Unparseable(arg, "velocity"))
           => IsErr(ret)
    /\ (op \in {"NearEarthObject", "CloseApproach"} /\ IsErr(ret)) =>
           neos = <<>> /\ cas = <<>>
    /\ (op = "NearEarthObject" /\ Built) =>
           Len(neos) = 1 /\ DOMAIN neos[ret.val.v] = NeoFields
    /\ (op = "CloseApproach" /\ Built) =>
           Len(cas) = 1 /\ DOMAIN cas[ret.val.v] = CaFields

C8_Witness ==
    /\ op = "CloseApproach"
    /\ Has(arg, "velocity") /\ arg.velocity = PyStr(<<"6", ".", "x">>)
    /\ ret = ValueError
    /\ cas = <<>>

(* ------------------------------------------------------------------ *)
(* C9                                                                  *)
(* ------------------------------------------------------------------ *)

(* C9: the sentence of a linked approach is the sentence the same
   approach gives unlinked when its raw designation is the NEO's
   fullname: the two differ in the identity string only. *)
C9_SameSentence ==
    (op = "CloseApproach.__str__" /\ Linked(arg.v)) =>
        ret.val = CloseApproach__str__(
                      [cas[arg.v] EXCEPT !.neo = PyNone,
                                         !._designation = fullname(neos[cas[arg.v].neo.v])],
                      neos)

(* ------------------------------------------------------------------ *)
(* C10                                                                 *)
(* ------------------------------------------------------------------ *)

(* C10: a read operation, returning or failing, changes no field of any
   NearEarthObject or CloseApproach. *)
C10_ReadsKeepFields ==
    [][op' \in ReadOps => (neos' = neos /\ cas' = cas)]_vars

C10_Witness ==
    /\ op = "CloseApproach.__str__"
    /\ Linked(arg.v)
    /\ cas[arg.v].distance = [k |-> "fin", neg |-> FALSE, ip |-> 1, fp |-> <<9, 9, 6>>]

====
